---- MODULE Spec2Model ----
(***************************************************************************)
(* A model of the WebGL2 wrapper classes of Umbra: Context (core/Context), *)
(* Program and Attribute.  The native graphics context is modelled as the  *)
(* state the wrapper reads and writes; every native call an operation      *)
(* issues is recorded, in order, in `calls`.                               *)
(***************************************************************************)
EXTENDS Integers, Sequences, FiniteSets, TLC

\* ------------------------------------------------------------ constants
\* WebGL enumerants imported by Context.ts from "#constants".
TEXTURE0 == 33984
ACTIVE_TEXTURE == 34016
BLEND_COLOR == 32773
\* LINK_STATUS, imported by Program from "#constants".
LINK_STATUS == 35714

\* ------------------------------------------------------------ bounds
\* MAX_COMBINED_TEXTURE_IMAGE_UNITS of the modelled native context.
MaxUnits == 2
\* Arrays the caller owns and may pass as a blend color.
NumCallerArrays == 1
\* The largest width and height of the drawing buffer.
MaxDrawingBufferSize == 2
\* Canvases of the page, and Context objects constructed in one run.
NumCanvases == 3
MaxContexts == 2
\* Native shader and program objects created in one run.
MaxShaders == 2
MaxPrograms == 2
\* Vertex array objects, and the largest attribute location.
NumVaos == 2
MaxLocation == 1
\* Buffer objects.
NumBuffers == 2
\* Uniform locations of a program.
NumUniformLocations == 2

\* ------------------------------------------------------------ values
\* An optional value: `undefined` is the empty sequence.
Undefined == <<>>
Some(v) == <<v>>
ValueOf(o) == o[1]
\* `null`, as distinct from `undefined`.
Null == <<"null", "null">>
\* x ?? d
NullishCoalesce(x, d) == IF x = Null \/ x = Undefined THEN d ELSE x

ColorSpaces == {"srgb", "display-p3"}
\* Unit indices a caller may request: one below and one above the valid range.
RequestedUnits == (0 - 1) .. MaxUnits
ValidUnits == 0 .. (MaxUnits - 1)
\* Colors (r, g, b, a) a caller uses.
Colors == {<<0, 0, 0, 0>>, <<1, 0, 0, 0>>, <<0, 0, 0, 1>>}
\* Array objects: 0 is the array getParameter(BLEND_COLOR) returns.
NativeArray == 0
CallerArrays == 1 .. NumCallerArrays
Arrays == {NativeArray} \cup CallerArrays

\* A native call; `returns` is kept where the wrapper reads the result.
Call(fn, params) == [fn |-> fn, params |-> params, returns |-> Undefined]
CallR(fn, params, returns) == [fn |-> fn, params |-> params, returns |-> returns]
Op(name, val) == [name |-> name, val |-> val]

VARIABLES
    gl,                           \* state of the native rendering context
    drawingBufferColorSpaceCache, \* Context.drawingBufferColorSpaceCache
    unpackColorSpaceCache,        \* Context.unpackColorSpaceCache
    activeTextureCache,           \* Context.activeTextureCache
    blendColorCache,              \* Context.blendColorCache: a reference
    heap,                         \* contents of the color array objects
    webgl2,                       \* canvases whose getContext("webgl2") succeeds
    contexts,                     \* the Context objects constructed so far
    native,                       \* native shader and program objects
    shaders,                      \* the Shader objects constructed so far
    programs,                     \* the Program objects constructed so far
    boundVao,                     \* native VERTEX_ARRAY_BINDING (0: none)
    vertexAttribArrays,           \* native enable flag per VAO and location
    location,                     \* Attribute.location
    enabledVaosCache,             \* Attribute.enabledVaosCache
    lastWritten,                  \* value last written to enabled, per binding
    valueCache,                   \* Attribute.valueCache
    arrayBufferBinding,           \* the Buffer bound to ARRAY_BUFFER (0: none)
    attributes,                   \* Program.attributes: the value of each Attribute
    uniformValues,                \* per uniform location, the native call that set it
    op,                           \* the operation performed last
    calls,                        \* native calls it issued, in order
    ret,                          \* what it returned
    thrown                        \* what it threw

ctxVars == <<gl, drawingBufferColorSpaceCache, unpackColorSpaceCache,
             activeTextureCache, blendColorCache, heap>>
newVars == <<webgl2, contexts>>
programVars == <<native, shaders, programs>>
attributeVars == <<boundVao, vertexAttribArrays, location, enabledVaosCache,
                   lastWritten, valueCache, arrayBufferBinding>>
obsVars == <<op, calls, ret, thrown>>
stateVars == <<attributes>>
uniformVars == <<uniformValues>>
vars == <<ctxVars, newVars, programVars, attributeVars, stateVars, uniformVars,
          obsVars>>

\* What an operation of one class leaves alone: the objects of the others.
OutsideContext ==
    UNCHANGED <<newVars, programVars, attributeVars, stateVars, uniformVars>>
OutsideNew ==
    UNCHANGED <<ctxVars, programVars, attributeVars, stateVars, uniformVars>>
OutsideProgram ==
    UNCHANGED <<ctxVars, newVars, attributeVars, stateVars, uniformVars>>
OutsideAttribute ==
    UNCHANGED <<ctxVars, newVars, programVars, stateVars, uniformVars>>
OutsideAttributeState ==
    UNCHANGED <<ctxVars, newVars, programVars, attributeVars, uniformVars>>
OutsideUniform ==
    UNCHANGED <<ctxVars, newVars, programVars, attributeVars, stateVars>>

\* ------------------------------------------------------------ native context
\* gl.activeTexture(texture): INVALID_ENUM, and no change, outside
\* TEXTURE0 .. TEXTURE0 + MAX_COMBINED_TEXTURE_IMAGE_UNITS - 1.
NativeActiveTexture(g, texture) ==
    IF (texture - TEXTURE0) \in ValidUnits
    THEN [g EXCEPT !.activeTexture = texture]
    ELSE g

\* gl.blendColor(r, g, b, a).
NativeBlendColor(g, color) == [g EXCEPT !.blendColor = color]

InitGl ==
    [drawingBufferColorSpace |-> "srgb",
     unpackColorSpace |-> "srgb",
     activeTexture |-> TEXTURE0,
     blendColor |-> <<0, 0, 0, 0>>,
     drawingBufferWidth |-> 1,
     drawingBufferHeight |-> 1]

\* Widths and heights a drawing buffer takes.
DrawingBufferSizes == 1 .. MaxDrawingBufferSize

InitContext ==
    /\ gl = InitGl
    /\ drawingBufferColorSpaceCache = Undefined
    /\ unpackColorSpaceCache = Undefined
    /\ activeTextureCache = Undefined
    /\ blendColorCache = Undefined
    /\ heap = [a \in Arrays |-> IF a = NativeArray THEN Undefined
                                ELSE <<0, 0, 0, 0>>]

InitObs ==
    /\ op = Op("init", <<>>)
    /\ calls = <<>>
    /\ ret = Undefined
    /\ thrown = Undefined

\* ------------------------------------------------------------ Context
GetDrawingBufferColorSpace ==
    /\ OutsideContext
    /\ op' = Op("get drawingBufferColorSpace", <<>>)
    /\ IF drawingBufferColorSpaceCache = Undefined
       THEN /\ drawingBufferColorSpaceCache' = Some(gl.drawingBufferColorSpace)
            /\ calls' = <<Call("get drawingBufferColorSpace", <<>>)>>
       ELSE /\ UNCHANGED drawingBufferColorSpaceCache
            /\ calls' = <<>>
    /\ ret' = drawingBufferColorSpaceCache'
    /\ thrown' = Undefined
    /\ UNCHANGED <<gl, unpackColorSpaceCache, activeTextureCache,
                   blendColorCache, heap>>

SetDrawingBufferColorSpace_NoSkip(value) ==
    /\ OutsideContext
    /\ op' = Op("set drawingBufferColorSpace", <<value>>)
    /\ gl' = [gl EXCEPT !.drawingBufferColorSpace = value]
    /\ drawingBufferColorSpaceCache' = Some(value)
    /\ calls' = <<Call("set drawingBufferColorSpace", <<value>>)>>
    /\ ret' = Undefined
    /\ thrown' = Undefined
    /\ UNCHANGED <<unpackColorSpaceCache, activeTextureCache,
                   blendColorCache, heap>>

SetDrawingBufferColorSpace(value) ==
    /\ OutsideContext
    /\ op' = Op("set drawingBufferColorSpace", <<value>>)
    /\ IF drawingBufferColorSpaceCache = Some(value)
       THEN /\ UNCHANGED <<gl, drawingBufferColorSpaceCache>>
            /\ calls' = <<>>
       ELSE /\ gl' = [gl EXCEPT !.drawingBufferColorSpace = value]
            /\ drawingBufferColorSpaceCache' = Some(value)
            /\ calls' = <<Call("set drawingBufferColorSpace", <<value>>)>>
    /\ ret' = Undefined
    /\ thrown' = Undefined
    /\ UNCHANGED <<unpackColorSpaceCache, activeTextureCache,
                   blendColorCache, heap>>

\* A getter that reads the native context on every get.
GetUnpackColorSpace_NoCache ==
    /\ OutsideContext
    /\ op' = Op("get unpackColorSpace", <<>>)
    /\ unpackColorSpaceCache' = Some(gl.unpackColorSpace)
    /\ calls' = <<Call("get unpackColorSpace", <<>>)>>
    /\ ret' = unpackColorSpaceCache'
    /\ thrown' = Undefined
    /\ UNCHANGED <<gl, drawingBufferColorSpaceCache, activeTextureCache,
                   blendColorCache, heap>>

GetUnpackColorSpace ==
    /\ OutsideContext
    /\ op' = Op("get unpackColorSpace", <<>>)
    /\ IF unpackColorSpaceCache = Undefined
       THEN /\ unpackColorSpaceCache' = Some(gl.unpackColorSpace)
            /\ calls' = <<Call("get unpackColorSpace", <<>>)>>
       ELSE /\ UNCHANGED unpackColorSpaceCache
            /\ calls' = <<>>
    /\ ret' = unpackColorSpaceCache'
    /\ thrown' = Undefined
    /\ UNCHANGED <<gl, drawingBufferColorSpaceCache, activeTextureCache,
                   blendColorCache, heap>>

\* A setter that also stores the value in the cache of drawingBufferColorSpace.
SetUnpackColorSpace_BothCaches(value) ==
    /\ OutsideContext
    /\ op' = Op("set unpackColorSpace", <<value>>)
    /\ IF unpackColorSpaceCache = Some(value)
       THEN /\ UNCHANGED <<gl, unpackColorSpaceCache, drawingBufferColorSpaceCache>>
            /\ calls' = <<>>
       ELSE /\ gl' = [gl EXCEPT !.unpackColorSpace = value]
            /\ unpackColorSpaceCache' = Some(value)
            /\ drawingBufferColorSpaceCache' = Some(value)
            /\ calls' = <<Call("set unpackColorSpace", <<value>>)>>
    /\ ret' = Undefined
    /\ thrown' = Undefined
    /\ UNCHANGED <<activeTextureCache, blendColorCache, heap>>

SetUnpackColorSpace(value) ==
    /\ OutsideContext
    /\ op' = Op("set unpackColorSpace", <<value>>)
    /\ IF unpackColorSpaceCache = Some(value)
       THEN /\ UNCHANGED <<gl, unpackColorSpaceCache>>
            /\ calls' = <<>>
       ELSE /\ gl' = [gl EXCEPT !.unpackColorSpace = value]
            /\ unpackColorSpaceCache' = Some(value)
            /\ calls' = <<Call("set unpackColorSpace", <<value>>)>>
    /\ ret' = Undefined
    /\ thrown' = Undefined
    /\ UNCHANGED <<drawingBufferColorSpaceCache, activeTextureCache,
                   blendColorCache, heap>>

\* A getter that returns the enumerant getParameter gives.
GetActiveTexture_Raw ==
    /\ OutsideContext
    /\ op' = Op("get activeTexture", <<>>)
    /\ IF activeTextureCache = Undefined
       THEN /\ activeTextureCache' = Some(gl.activeTexture)
            /\ calls' = <<Call("getParameter", <<ACTIVE_TEXTURE>>)>>
       ELSE /\ UNCHANGED activeTextureCache
            /\ calls' = <<>>
    /\ ret' = activeTextureCache'
    /\ thrown' = Undefined
    /\ UNCHANGED <<gl, drawingBufferColorSpaceCache, unpackColorSpaceCache,
                   blendColorCache, heap>>

GetActiveTexture ==
    /\ OutsideContext
    /\ op' = Op("get activeTexture", <<>>)
    /\ IF activeTextureCache = Undefined
       THEN /\ activeTextureCache' = Some(gl.activeTexture - TEXTURE0)
            /\ calls' = <<Call("getParameter", <<ACTIVE_TEXTURE>>)>>
       ELSE /\ UNCHANGED activeTextureCache
            /\ calls' = <<>>
    /\ ret' = activeTextureCache'
    /\ thrown' = Undefined
    /\ UNCHANGED <<gl, drawingBufferColorSpaceCache, unpackColorSpaceCache,
                   blendColorCache, heap>>

SetActiveTexture(value) ==
    /\ OutsideContext
    /\ op' = Op("set activeTexture", <<value>>)
    /\ IF activeTextureCache = Some(value)
       THEN /\ UNCHANGED <<gl, activeTextureCache>>
            /\ calls' = <<>>
       ELSE /\ gl' = NativeActiveTexture(gl, value + TEXTURE0)
            /\ activeTextureCache' = Some(value)
            /\ calls' = <<Call("activeTexture", <<value + TEXTURE0>>)>>
    /\ ret' = Undefined
    /\ thrown' = Undefined
    /\ UNCHANGED <<drawingBufferColorSpaceCache, unpackColorSpaceCache,
                   blendColorCache, heap>>

\* The first get stores the array getParameter returns; later gets return
\* the cached reference, which may be an array the caller passed to the setter.
GetBlendColor ==
    /\ OutsideContext
    /\ op' = Op("get blendColor", <<>>)
    /\ IF blendColorCache = Undefined
       THEN /\ heap' = [heap EXCEPT ![NativeArray] = gl.blendColor]
            /\ blendColorCache' = Some(NativeArray)
            /\ calls' = <<Call("getParameter", <<BLEND_COLOR>>)>>
       ELSE /\ UNCHANGED <<heap, blendColorCache>>
            /\ calls' = <<>>
    /\ ret' = blendColorCache'
    /\ thrown' = Undefined
    /\ UNCHANGED <<gl, drawingBufferColorSpaceCache, unpackColorSpaceCache,
                   activeTextureCache>>

\* `value` is a reference to an array object; the cache keeps the reference,
\* and the comparison reads the components the cached object holds now.
SetBlendColor(value) ==
    /\ OutsideContext
    /\ op' = Op("set blendColor", <<value, heap[value]>>)
    /\ IF /\ blendColorCache # Undefined
          /\ heap[ValueOf(blendColorCache)][1] = heap[value][1]
          /\ heap[ValueOf(blendColorCache)][2] = heap[value][2]
          /\ heap[ValueOf(blendColorCache)][3] = heap[value][3]
          /\ heap[ValueOf(blendColorCache)][4] = heap[value][4]
       THEN /\ UNCHANGED <<gl, blendColorCache>>
            /\ calls' = <<>>
       ELSE /\ gl' = NativeBlendColor(gl, <<heap[value][1], heap[value][2],
                                            heap[value][3], heap[value][4]>>)
            /\ blendColorCache' = Some(value)
            /\ calls' = <<Call("blendColor", heap[value])>>
    /\ ret' = Undefined
    /\ thrown' = Undefined
    /\ UNCHANGED <<heap, drawingBufferColorSpaceCache, unpackColorSpaceCache,
                   activeTextureCache>>

\* The caller writes the components of an array it holds: one it created, or
\* the one the blendColor getter returned.
CallerWritesArray(a, color) ==
    /\ OutsideContext
    /\ heap[a] # Undefined
    /\ heap[a] # color
    /\ heap' = [heap EXCEPT ![a] = color]
    /\ op' = Op("caller writes array", <<a, color>>)
    /\ calls' = <<>>
    /\ ret' = Undefined
    /\ thrown' = Undefined
    /\ UNCHANGED <<gl, drawingBufferColorSpaceCache, unpackColorSpaceCache,
                   activeTextureCache, blendColorCache>>

\* A getter that returns the height the drawing buffer had at first.
GetDrawingBufferHeight_Initial ==
    /\ OutsideContext
    /\ op' = Op("get drawingBufferHeight", <<>>)
    /\ calls' = <<>>
    /\ ret' = Some(InitGl.drawingBufferHeight)
    /\ thrown' = Undefined
    /\ UNCHANGED ctxVars

GetDrawingBufferHeight ==
    /\ OutsideContext
    /\ op' = Op("get drawingBufferHeight", <<>>)
    /\ calls' = <<Call("get drawingBufferHeight", <<>>)>>
    /\ ret' = Some(gl.drawingBufferHeight)
    /\ thrown' = Undefined
    /\ UNCHANGED ctxVars

GetDrawingBufferWidth ==
    /\ OutsideContext
    /\ op' = Op("get drawingBufferWidth", <<>>)
    /\ calls' = <<Call("get drawingBufferWidth", <<>>)>>
    /\ ret' = Some(gl.drawingBufferWidth)
    /\ thrown' = Undefined
    /\ UNCHANGED ctxVars

\* The page resizes the canvas: the native drawing buffer takes a new size.
CanvasResized(width, height) ==
    /\ OutsideContext
    /\ <<width, height>> # <<gl.drawingBufferWidth, gl.drawingBufferHeight>>
    /\ gl' = [gl EXCEPT !.drawingBufferWidth = width,
                        !.drawingBufferHeight = height]
    /\ op' = Op("canvas resized", <<width, height>>)
    /\ calls' = <<>>
    /\ ret' = Undefined
    /\ thrown' = Undefined
    /\ UNCHANGED <<drawingBufferColorSpaceCache, unpackColorSpaceCache,
                   activeTextureCache, blendColorCache, heap>>

\* new Context(gl) on the native context of the Context above: the new
\* wrapper starts with empty caches, the native state stays, and the array an
\* earlier blendColor get returned is dropped with the old wrapper.
NewContextOnSameGl ==
    /\ OutsideContext
    /\ op' = Op("new Context(same gl)", <<>>)
    /\ drawingBufferColorSpaceCache' = Undefined
    /\ unpackColorSpaceCache' = Undefined
    /\ activeTextureCache' = Undefined
    /\ blendColorCache' = Undefined
    /\ heap' = [heap EXCEPT ![NativeArray] = Undefined]
    /\ calls' = <<>>
    /\ ret' = Undefined
    /\ thrown' = Undefined
    /\ UNCHANGED gl

\* ------------------------------------------------------------ Context()
Canvases == 1 .. NumCanvases
ContextOptions == {"undefined", "antialias"}
\* The native context of a canvas, and the canvas of a native context.
GlOf(canvas) == <<"WebGL2RenderingContext", canvas>>
CanvasOf(g) == g[2]
NativeContexts == {GlOf(c) : c \in webgl2}

\* canvas.getContext("webgl2", options): the canvas's context, or null.
GetContext(canvas) == IF canvas \in webgl2 THEN Some(GlOf(canvas)) ELSE Undefined

Error(name, message, by) == [name |-> name, message |-> message, by |-> by]

InitNew ==
    /\ webgl2 \in SUBSET Canvases
    /\ contexts = <<>>

NewContextFromCanvas_NoThrow(source, options) ==
    /\ OutsideNew
    /\ Len(contexts) < MaxContexts \/ GetContext(source) = Undefined
    /\ op' = Op("new Context(canvas)", <<source, options>>)
    /\ calls' = <<Call("getContext", <<source, "webgl2", options>>)>>
    /\ contexts' = Append(contexts, [gl |-> GetContext(source), canvas |-> source])
    /\ thrown' = Undefined
    /\ ret' = Some(Len(contexts'))
    /\ UNCHANGED webgl2

\* new Context(canvas, options)
NewContextFromCanvas(source, options) ==
    /\ OutsideNew
    /\ Len(contexts) < MaxContexts \/ GetContext(source) = Undefined
    /\ op' = Op("new Context(canvas)", <<source, options>>)
    /\ calls' = <<Call("getContext", <<source, "webgl2", options>>)>>
    /\ IF GetContext(source) = Undefined
       THEN /\ thrown' = Some(Error("UnsupportedOperationError",
                               Some("The environment does not support WebGL2."),
                               "Context"))
            /\ ret' = Undefined
            /\ UNCHANGED contexts
       ELSE /\ contexts' = Append(contexts,
                    [gl |-> ValueOf(GetContext(source)),
                     canvas |-> CanvasOf(ValueOf(GetContext(source)))])
            /\ thrown' = Undefined
            /\ ret' = Some(Len(contexts'))
    /\ UNCHANGED webgl2

\* new Context(gl)
NewContextFromGl(source) ==
    /\ OutsideNew
    /\ Len(contexts) < MaxContexts
    /\ op' = Op("new Context(gl)", <<source>>)
    /\ calls' = <<>>
    /\ contexts' = Append(contexts, [gl |-> source, canvas |-> CanvasOf(source)])
    /\ thrown' = Undefined
    /\ ret' = Some(Len(contexts'))
    /\ UNCHANGED webgl2

\* ------------------------------------------------------------ Shader
ShaderTypes == {"VERTEX_SHADER", "FRAGMENT_SHADER"}
\* Shader sources: one the native compiler accepts, one it rejects.
ShaderSources == {"valid", "invalid"}
Outcome(nat, cs, err, result) ==
    [native |-> nat, calls |-> cs, thrown |-> err, result |-> result]

\* new Shader(context, type, source): createShader, shaderSource,
\* compileShader, then the COMPILE_STATUS query; `created` is whether the
\* native createShader returns a shader.
ShaderCtor(nat, type, source, created) ==
    IF ~created
    THEN Outcome(nat, <<CallR("createShader", <<type>>, Null)>>,
                 Some(Error("UnsupportedOperationError", Undefined, "Shader")),
                 Undefined)
    ELSE LET h == Len(nat.shaders) + 1
             compiled == source = "valid"
             nat1 == [nat EXCEPT !.shaders =
                         Append(@, [type |-> type, compiled |-> compiled])]
             cs == <<CallR("createShader", <<type>>, Some(h)),
                     Call("shaderSource", <<h, source>>),
                     Call("compileShader", <<h>>),
                     CallR("getShaderParameter", <<h, "COMPILE_STATUS">>,
                           Some(compiled))>>
         IN IF compiled
            THEN Outcome(nat1, cs, Undefined,
                         Some([internal |-> h, type |-> type]))
            ELSE Outcome(nat1,
                         Append(cs, CallR("getShaderInfoLog", <<h>>,
                                          Some("compile failed"))),
                         Some(Error("ShaderCompileError",
                                    Some("compile failed"), "Shader")),
                         Undefined)

\* ------------------------------------------------------------ Program
\* What linking does to the native program: LINK_STATUS and the info log.
LinkOutcomes ==
    {[status |-> TRUE, log |-> Some("")],
     [status |-> FALSE, log |-> Some("link failed")],
     [status |-> FALSE, log |-> Null]}
\* attributeLocations: omitted, or a map in insertion order.
AttributeLocationMaps ==
    {Undefined, Some(<<(<<"a_position", 0>>), (<<"a_color", 1>>)>>)}

\* Program.linkStatus
LinkStatus(nat, internal) == nat.programs[internal].linkStatus
\* Program.infoLog
InfoLog(nat, internal) == nat.programs[internal].infoLog

BindAttribLocations(program, attributeLocations) ==
    IF attributeLocations = Undefined
    THEN <<>>
    ELSE [i \in 1 .. Len(ValueOf(attributeLocations)) |->
             Call("bindAttribLocation",
                  <<program, ValueOf(attributeLocations)[i][2],
                    ValueOf(attributeLocations)[i][1]>>)]

NewNativeProgram(vertexShader, fragmentShader, attributeLocations, link) ==
    [attached |-> <<vertexShader.internal, fragmentShader.internal>>,
     linkStatus |-> link.status,
     infoLog |-> link.log,
     deleted |-> FALSE]

\* A construction that links before it binds the attribute locations.
ProgramCtorCalls_LinkFirst(program, vertexShader, fragmentShader, attributeLocations, link) ==
    <<CallR("createProgram", <<>>, Some(program)),
      Call("attachShader", <<program, vertexShader.internal>>),
      Call("attachShader", <<program, fragmentShader.internal>>),
      Call("linkProgram", <<program>>)>>
    \o BindAttribLocations(program, attributeLocations)
    \o <<CallR("getProgramParameter", <<program, LINK_STATUS>>, Some(link.status))>>

\* The calls of a construction whose createProgram returned `program`.
ProgramCtorCalls(program, vertexShader, fragmentShader, attributeLocations, link) ==
    <<CallR("createProgram", <<>>, Some(program)),
      Call("attachShader", <<program, vertexShader.internal>>),
      Call("attachShader", <<program, fragmentShader.internal>>)>>
    \o BindAttribLocations(program, attributeLocations)
    \o <<Call("linkProgram", <<program>>),
         CallR("getProgramParameter", <<program, LINK_STATUS>>, Some(link.status))>>

ProgramCtor_Retry(nat, vertexShader, fragmentShader, attributeLocations, created, link) ==
    IF ~created
    THEN Outcome(nat, <<CallR("createProgram", <<>>, Null),
                       CallR("createProgram", <<>>, Null)>>,
                 Some(Error("UnsupportedOperationError", Undefined, "Program")),
                 Undefined)
    ELSE LET program == Len(nat.programs) + 1
             nat1 == [nat EXCEPT !.programs =
                         Append(@, NewNativeProgram(vertexShader, fragmentShader,
                                                    attributeLocations, link))]
             cs == ProgramCtorCalls(program, vertexShader, fragmentShader,
                                    attributeLocations, link)
         IN IF ~LinkStatus(nat1, program)
            THEN Outcome(nat1,
                         Append(cs, CallR("getProgramInfoLog", <<program>>,
                                          InfoLog(nat1, program))),
                         Some(Error("ProgramLinkError",
                                    NullishCoalesce(InfoLog(nat1, program), Undefined),
                                    "Program")),
                         Undefined)
            ELSE Outcome(nat1, cs, Undefined,
                         Some([internal |-> program,
                               vertexShader |-> vertexShader,
                               fragmentShader |-> fragmentShader]))

ProgramCtor_NoLinkCheck(nat, vertexShader, fragmentShader, attributeLocations, created, link) ==
    IF ~created
    THEN Outcome(nat, <<CallR("createProgram", <<>>, Null)>>,
                 Some(Error("UnsupportedOperationError", Undefined, "Program")),
                 Undefined)
    ELSE LET program == Len(nat.programs) + 1
             nat1 == [nat EXCEPT !.programs =
                         Append(@, NewNativeProgram(vertexShader, fragmentShader,
                                                    attributeLocations, link))]
         IN Outcome(nat1,
                    ProgramCtorCalls(program, vertexShader, fragmentShader,
                                     attributeLocations, link),
                    Undefined,
                    Some([internal |-> program,
                          vertexShader |-> vertexShader,
                          fragmentShader |-> fragmentShader]))

ProgramCtor_DeleteOnLinkError(nat, vertexShader, fragmentShader, attributeLocations, created, link) ==
    IF ~created
    THEN Outcome(nat, <<CallR("createProgram", <<>>, Null)>>,
                 Some(Error("UnsupportedOperationError", Undefined, "Program")),
                 Undefined)
    ELSE LET program == Len(nat.programs) + 1
             nat1 == [nat EXCEPT !.programs =
                         Append(@, NewNativeProgram(vertexShader, fragmentShader,
                                                    attributeLocations, link))]
             cs == ProgramCtorCalls(program, vertexShader, fragmentShader,
                                    attributeLocations, link)
         IN IF ~LinkStatus(nat1, program)
            THEN Outcome([nat1 EXCEPT !.programs[program].deleted = TRUE],
                         cs \o <<CallR("getProgramInfoLog", <<program>>,
                                       InfoLog(nat1, program)),
                                 Call("deleteProgram", <<program>>)>>,
                         Some(Error("ProgramLinkError",
                                    NullishCoalesce(InfoLog(nat1, program), Undefined),
                                    "Program")),
                         Undefined)
            ELSE Outcome(nat1, cs, Undefined,
                         Some([internal |-> program,
                               vertexShader |-> vertexShader,
                               fragmentShader |-> fragmentShader]))

\* new Program(context, vertexShader, fragmentShader, attributeLocations);
\* `created` is whether the native createProgram returns a program, `link`
\* what linking it yields.
ProgramCtor(nat, vertexShader, fragmentShader, attributeLocations, created, link) ==
    IF ~created
    THEN Outcome(nat, <<CallR("createProgram", <<>>, Null)>>,
                 Some(Error("UnsupportedOperationError", Undefined, "Program")),
                 Undefined)
    ELSE LET program == Len(nat.programs) + 1
             nat1 == [nat EXCEPT !.programs =
                         Append(@, NewNativeProgram(vertexShader, fragmentShader,
                                                    attributeLocations, link))]
             cs == ProgramCtorCalls(program, vertexShader, fragmentShader,
                                    attributeLocations, link)
         IN IF ~LinkStatus(nat1, program)
            THEN Outcome(nat1,
                         Append(cs, CallR("getProgramInfoLog", <<program>>,
                                          InfoLog(nat1, program))),
                         Some(Error("ProgramLinkError",
                                    NullishCoalesce(InfoLog(nat1, program), Undefined),
                                    "Program")),
                         Undefined)
            ELSE Outcome(nat1, cs, Undefined,
                         Some([internal |-> program,
                               vertexShader |-> vertexShader,
                               fragmentShader |-> fragmentShader]))

FromSourceOutcome_ProgramAnyway(nat, vertexShaderSource, fragmentShaderSource, vertexCreated, fragmentCreated, created, link) ==
    LET v == ShaderCtor(nat, "VERTEX_SHADER", vertexShaderSource, vertexCreated)
    IN IF v.thrown # Undefined
       THEN v
       ELSE LET f == ShaderCtor(v.native, "FRAGMENT_SHADER",
                                fragmentShaderSource, fragmentCreated)
                q == ProgramCtor(f.native, ValueOf(v.result),
                                 IF f.result = Undefined THEN ValueOf(v.result)
                                 ELSE ValueOf(f.result),
                                 Undefined, created, link)
            IN IF f.thrown # Undefined
               THEN [f EXCEPT !.calls = v.calls \o @ \o q.calls,
                              !.native = q.native]
               ELSE [q EXCEPT !.calls = v.calls \o f.calls \o @,
                              !.result = IF q.result = Undefined
                                         THEN Undefined
                                         ELSE <<ValueOf(q.result),
                                                ValueOf(v.result),
                                                ValueOf(f.result)>>]

\* Program.fromSource(context, vertexShaderSource, fragmentShaderSource): the
\* arguments of `new Program` are evaluated left to right, and a throw ends
\* the evaluation.
FromSourceOutcome(nat, vertexShaderSource, fragmentShaderSource, vertexCreated, fragmentCreated, created, link) ==
    LET v == ShaderCtor(nat, "VERTEX_SHADER", vertexShaderSource, vertexCreated)
    IN IF v.thrown # Undefined
       THEN v
       ELSE LET f == ShaderCtor(v.native, "FRAGMENT_SHADER",
                                fragmentShaderSource, fragmentCreated)
            IN IF f.thrown # Undefined
               THEN [f EXCEPT !.calls = v.calls \o @]
               ELSE LET q == ProgramCtor(f.native, ValueOf(v.result),
                                         ValueOf(f.result), Undefined,
                                         created, link)
                    IN [q EXCEPT !.calls = v.calls \o f.calls \o @,
                                 !.result = IF q.result = Undefined
                                            THEN Undefined
                                            ELSE <<ValueOf(q.result),
                                                   ValueOf(v.result),
                                                   ValueOf(f.result)>>]

InitProgram ==
    /\ native = [shaders |-> <<>>, programs |-> <<>>]
    /\ shaders = <<>>
    /\ programs = <<>>

NewShader(type, source) ==
    /\ OutsideProgram
    /\ Len(native.shaders) < MaxShaders
    /\ \E created \in BOOLEAN :
         LET r == ShaderCtor(native, type, source, created)
         IN /\ op' = Op("new Shader", <<type, source>>)
            /\ native' = r.native
            /\ calls' = r.calls
            /\ thrown' = r.thrown
            /\ shaders' = IF r.result = Undefined THEN shaders
                          ELSE Append(shaders, ValueOf(r.result))
            /\ ret' = IF r.result = Undefined THEN Undefined
                      ELSE Some(Len(shaders'))
    /\ UNCHANGED programs

\* `vertexShader` and `fragmentShader` index the Shader objects; the caller
\* passes a vertex shader and a fragment shader, as the parameters ask.
NewProgram(vertexShader, fragmentShader, attributeLocations) ==
    /\ OutsideProgram
    /\ Len(native.programs) < MaxPrograms
    /\ shaders[vertexShader].type = "VERTEX_SHADER"
    /\ shaders[fragmentShader].type = "FRAGMENT_SHADER"
    /\ \E created \in BOOLEAN, link \in LinkOutcomes :
         LET r == ProgramCtor(native, shaders[vertexShader],
                              shaders[fragmentShader], attributeLocations,
                              created, link)
         IN /\ op' = Op("new Program",
                        <<vertexShader, fragmentShader, attributeLocations>>)
            /\ native' = r.native
            /\ calls' = r.calls
            /\ thrown' = r.thrown
            /\ programs' = IF r.result = Undefined THEN programs
                           ELSE Append(programs, ValueOf(r.result))
            /\ ret' = IF r.result = Undefined THEN Undefined
                      ELSE Some(Len(programs'))
    /\ UNCHANGED shaders

FromSource(vertexShaderSource, fragmentShaderSource) ==
    /\ OutsideProgram
    /\ Len(native.shaders) + 2 <= MaxShaders
    /\ Len(native.programs) < MaxPrograms
    /\ \E vertexCreated \in BOOLEAN, fragmentCreated \in BOOLEAN,
          created \in BOOLEAN, link \in LinkOutcomes :
         LET r == FromSourceOutcome(native, vertexShaderSource,
                                    fragmentShaderSource, vertexCreated,
                                    fragmentCreated, created, link)
         IN /\ op' = Op("Program.fromSource",
                        <<vertexShaderSource, fragmentShaderSource>>)
            /\ native' = r.native
            /\ calls' = r.calls
            /\ thrown' = r.thrown
            /\ programs' = IF r.result = Undefined THEN programs
                           ELSE Append(programs, r.result[1])
            /\ shaders' = IF r.result = Undefined THEN shaders
                          ELSE shaders \o <<r.result[2], r.result[3]>>
            /\ ret' = IF r.result = Undefined THEN Undefined
                      ELSE Some(Len(programs'))

\* Program.delete() on the Program object `p`.
DeleteProgram(p) ==
    /\ OutsideProgram
    /\ op' = Op("Program.delete", <<p>>)
    /\ calls' = <<Call("deleteProgram", <<programs[p].internal>>)>>
    /\ native' = [native EXCEPT !.programs[programs[p].internal].deleted = TRUE]
    /\ thrown' = Undefined
    /\ ret' = Undefined
    /\ UNCHANGED <<shaders, programs>>

\* ------------------------------------------------------------ Attribute
\* The binding when no VAO is bound (`null`): the default vertex array.
NoVao == 0
Vaos == 1 .. NumVaos
Bindings == {NoVao} \cup Vaos
Locations == 0 .. MaxLocation

\* Buffer objects (a Buffer has no property named "buffer"), the attribute
\* values that name one, and what setValue accepts.
NoBuffer == 0
Buffers == {[internal |-> b] : b \in 1 .. NumBuffers}
AttributeValues == {[buffer |-> buffer, size |-> 3] : buffer \in Buffers}
SetValueArguments == AttributeValues \cup Buffers

\* `key in object`
In(key, object) == key \in DOMAIN object

\* const realValue = "buffer" in value ? value : { buffer: value };
RealValue(value) == IF In("buffer", value) THEN value ELSE [buffer |-> value]

\* Array.prototype.includes, indexOf and splice(i, 1) on a sequence.
Includes(arr, x) == \E i \in DOMAIN arr : arr[i] = x
IndexOf(arr, x) == CHOOSE i \in DOMAIN arr :
                      arr[i] = x /\ \A j \in 1 .. (i - 1) : arr[j] # x
Splice(arr, i) == [j \in 1 .. (Len(arr) - 1) |->
                      IF j < i THEN arr[j] ELSE arr[j + 1]]

\* Vao.getBound(gl)
VaoGetBound == boundVao

\* gl.enableVertexAttribArray / gl.disableVertexAttribArray: the flag of the
\* bound vertex array (the default one when none is bound).
NativeSetVertexAttribArray(flags, vao, index, enable) ==
    [flags EXCEPT ![vao][index] = enable]

\* Attribute.enabled (get)
Enabled ==
    IF VaoGetBound = NoVao
    THEN FALSE
    ELSE Includes(enabledVaosCache, VaoGetBound)

InitAttribute ==
    /\ boundVao = NoVao
    /\ vertexAttribArrays = [b \in Bindings |-> [l \in Locations |-> FALSE]]
    /\ location \in Locations
    /\ enabledVaosCache = <<>>
    /\ lastWritten = [b \in Bindings |-> FALSE]
    /\ valueCache = Undefined
    /\ arrayBufferBinding = NoBuffer

\* The caller binds a VAO, or unbinds (NoVao).
BindVao(vao) ==
    /\ OutsideAttribute
    /\ vao # boundVao
    /\ boundVao' = vao
    /\ op' = Op("bind VAO", <<vao>>)
    /\ calls' = <<Call("bindVertexArray", <<vao>>)>>
    /\ ret' = Undefined
    /\ thrown' = Undefined
    /\ UNCHANGED <<vertexAttribArrays, location, enabledVaosCache, lastWritten,
                   valueCache, arrayBufferBinding>>

GetEnabled ==
    /\ OutsideAttribute
    /\ op' = Op("get enabled", <<>>)
    /\ calls' = <<>>
    /\ ret' = Some(Enabled)
    /\ thrown' = Undefined
    /\ UNCHANGED attributeVars

SetEnabled_NoSkip(value) ==
    /\ OutsideAttribute
    /\ op' = Op("set enabled", <<value>>)
    /\ lastWritten' = [lastWritten EXCEPT ![boundVao] = value]
    /\ calls' = <<Call(IF value THEN "enableVertexAttribArray"
                       ELSE "disableVertexAttribArray", <<location>>)>>
    /\ vertexAttribArrays' =
           NativeSetVertexAttribArray(vertexAttribArrays, boundVao, location, value)
    /\ enabledVaosCache' =
           IF VaoGetBound = NoVao THEN enabledVaosCache
           ELSE IF value /\ ~Includes(enabledVaosCache, VaoGetBound)
           THEN Append(enabledVaosCache, VaoGetBound)
           ELSE IF ~value /\ Includes(enabledVaosCache, VaoGetBound)
           THEN Splice(enabledVaosCache, IndexOf(enabledVaosCache, VaoGetBound))
           ELSE enabledVaosCache
    /\ ret' = Undefined
    /\ thrown' = Undefined
    /\ UNCHANGED <<boundVao, location, valueCache, arrayBufferBinding>>

\* Attribute.enabled (set)
SetEnabled(value) ==
    /\ OutsideAttribute
    /\ op' = Op("set enabled", <<value>>)
    /\ lastWritten' = [lastWritten EXCEPT ![boundVao] = value]
    /\ IF Enabled = value
       THEN /\ calls' = <<>>
            /\ UNCHANGED <<vertexAttribArrays, enabledVaosCache>>
       ELSE IF value
       THEN /\ calls' = <<Call("enableVertexAttribArray", <<location>>)>>
            /\ vertexAttribArrays' =
                   NativeSetVertexAttribArray(vertexAttribArrays, boundVao,
                                              location, TRUE)
            /\ enabledVaosCache' =
                   IF VaoGetBound # NoVao /\ ~Includes(enabledVaosCache, VaoGetBound)
                   THEN Append(enabledVaosCache, VaoGetBound)
                   ELSE enabledVaosCache
       ELSE /\ calls' = <<Call("disableVertexAttribArray", <<location>>)>>
            /\ vertexAttribArrays' =
                   NativeSetVertexAttribArray(vertexAttribArrays, boundVao,
                                              location, FALSE)
            /\ enabledVaosCache' =
                   IF VaoGetBound # NoVao /\ Includes(enabledVaosCache, VaoGetBound)
                   THEN Splice(enabledVaosCache,
                               IndexOf(enabledVaosCache, VaoGetBound))
                   ELSE enabledVaosCache
    /\ ret' = Undefined
    /\ thrown' = Undefined
    /\ UNCHANGED <<boundVao, location, valueCache, arrayBufferBinding>>

\* Attribute.value (get)
GetValue ==
    /\ OutsideAttribute
    /\ op' = Op("get value", <<>>)
    /\ calls' = <<>>
    /\ ret' = valueCache
    /\ thrown' = Undefined
    /\ UNCHANGED attributeVars

\* The effects of setValue after `this.enabled = true`.
BindAndSet(realValue) ==
    /\ arrayBufferBinding' = realValue.buffer.internal
    /\ valueCache' = Some(realValue)
    /\ ret' = Undefined
    /\ thrown' = Undefined
    /\ UNCHANGED <<boundVao, location>>

\* A setValue that returns at once when the value is the cached one.
SetValue_SkipCached(value) ==
    /\ OutsideAttribute
    /\ op' = Op("setValue", <<value>>)
    /\ IF valueCache = Some(RealValue(value))
       THEN /\ calls' = <<>>
            /\ ret' = Undefined
            /\ thrown' = Undefined
            /\ UNCHANGED attributeVars
       ELSE /\ lastWritten' = [lastWritten EXCEPT ![boundVao] = TRUE]
            /\ calls' = (IF Enabled THEN <<>>
                         ELSE <<Call("enableVertexAttribArray", <<location>>)>>)
                        \o <<Call("Buffer.bind", <<RealValue(value).buffer, "ARRAY_BUFFER">>),
                             Call("setterInternal", <<RealValue(value)>>)>>
            /\ vertexAttribArrays' =
                   IF Enabled THEN vertexAttribArrays
                   ELSE NativeSetVertexAttribArray(vertexAttribArrays, boundVao,
                                                   location, TRUE)
            /\ enabledVaosCache' =
                   IF VaoGetBound # NoVao /\ ~Includes(enabledVaosCache, VaoGetBound)
                   THEN Append(enabledVaosCache, VaoGetBound)
                   ELSE enabledVaosCache
            /\ BindAndSet(RealValue(value))

\* Attribute.setValue: `this.enabled = true` (the enabled setter above, given
\* true), then Buffer.bind of the value's buffer and setterInternal, recorded
\* in `calls` as the calls setValue makes on them.
SetValue(value) ==
    /\ OutsideAttribute
    /\ op' = Op("setValue", <<value>>)
    /\ lastWritten' = [lastWritten EXCEPT ![boundVao] = TRUE]
    /\ LET realValue == RealValue(value)
       IN /\ calls' = (IF Enabled THEN <<>>
                       ELSE <<Call("enableVertexAttribArray", <<location>>)>>)
                      \o <<Call("Buffer.bind", <<realValue.buffer, "ARRAY_BUFFER">>),
                           Call("setterInternal", <<realValue>>)>>
          /\ vertexAttribArrays' =
                 IF Enabled THEN vertexAttribArrays
                 ELSE NativeSetVertexAttribArray(vertexAttribArrays, boundVao,
                                                 location, TRUE)
          /\ enabledVaosCache' =
                 IF VaoGetBound # NoVao /\ ~Includes(enabledVaosCache, VaoGetBound)
                 THEN Append(enabledVaosCache, VaoGetBound)
                 ELSE enabledVaosCache
          /\ BindAndSet(realValue)

\* ------------------------------------------------------------ AttributeState
\* Names of attributes in shader programs.
AttributeNames == {"a_position", "a_color", "a_normal"}

\* new AttributeState(name, buffer), the other parameters at their defaults.
AttributeStateCtor(name, buffer) ==
    [name |-> name, buffer |-> buffer, size |-> 3, normalized |-> FALSE,
     stride |-> 0, offset |-> 0]
AttributeStates ==
    {AttributeStateCtor(name, buffer) : name \in AttributeNames, buffer \in Buffers}

\* Map.prototype.get: `undefined` for a key the map does not hold.
MapGet(map, key) == IF key \in DOMAIN map THEN Some(map[key]) ELSE Undefined

\* A program's attributes, by name; none has a value yet.
InitAttributeState ==
    \E names \in SUBSET AttributeNames : attributes = [n \in names |-> Undefined]

\* A use that does nothing for a name the program lacks.
AttributeStateUse_Silent(state) ==
    /\ OutsideAttributeState
    /\ op' = Op("AttributeState.use", <<state>>)
    /\ IF MapGet(attributes, state.name) = Undefined
       THEN /\ calls' = <<>>
            /\ UNCHANGED attributes
       ELSE /\ attributes' = [attributes EXCEPT ![state.name] = Some(state)]
            /\ calls' = <<Call("set Attribute.value", <<state.name, state>>)>>
    /\ thrown' = Undefined
    /\ ret' = Undefined

\* AttributeState.use(program); the assignment to Attribute.value is
\* recorded in `calls` as the call use makes on the Attribute.
AttributeStateUse(state) ==
    /\ OutsideAttributeState
    /\ op' = Op("AttributeState.use", <<state>>)
    /\ IF MapGet(attributes, state.name) = Undefined
       THEN /\ thrown' = Some(Error("Error", Some("Attribute not found."),
                                    "AttributeState.use"))
            /\ calls' = <<>>
            /\ UNCHANGED attributes
       ELSE /\ attributes' = [attributes EXCEPT ![state.name] = Some(state)]
            /\ calls' = <<Call("set Attribute.value", <<state.name, state>>)>>
            /\ thrown' = Undefined
    /\ ret' = Undefined

\* ------------------------------------------------------------ uniforms
UniformLocations == 1 .. NumUniformLocations
\* this.sourceOffset, this.sourceLength and this.transpose: optional fields.
SourceOffsets == {Undefined, Some(1)}
SourceLengths == {Undefined, Some(2)}
Transposes == {Undefined, Some(TRUE), Some(FALSE)}
\* Values given to the setters.
Iterables == {<<0, 0, 0, 0>>, <<1, 0, 0, 1>>}
Numbers == {0, 1}

VectorUniformClasses == {"FloatUniform", "FloatVector3Uniform", "IntegerVector2Uniform"}
MatrixUniformClasses == {"FloatMatrix2x2Uniform", "FloatMatrix3x4Uniform"}
Uniforms ==
    {[class |-> c, location |-> l, sourceOffset |-> o, sourceLength |-> n] :
        c \in VectorUniformClasses, l \in UniformLocations,
        o \in SourceOffsets, n \in SourceLengths}
    \cup
    {[class |-> c, location |-> l, sourceOffset |-> o, sourceLength |-> n,
      transpose |-> t] :
        c \in MatrixUniformClasses, l \in UniformLocations,
        o \in SourceOffsets, n \in SourceLengths, t \in Transposes}

\* A matrix setter whose transpose defaults to true.
FloatMatrix2x2UniformIterableSetter_TransposeByDefault(u, value) ==
    Call("uniformMatrix2fv",
         <<u.location, ValueOf(NullishCoalesce(u.transpose, Some(TRUE))), value,
           u.sourceOffset, u.sourceLength>>)

\* FloatMatrix2x2Uniform.iterableSetter
FloatMatrix2x2UniformIterableSetter(u, value) ==
    Call("uniformMatrix2fv",
         <<u.location, ValueOf(NullishCoalesce(u.transpose, Some(FALSE))), value,
           u.sourceOffset, u.sourceLength>>)

\* FloatMatrix3x4Uniform.iterableSetter
FloatMatrix3x4UniformIterableSetter(u, value) ==
    Call("uniformMatrix3x4fv",
         <<u.location, ValueOf(NullishCoalesce(u.transpose, Some(FALSE))), value,
           u.sourceOffset, u.sourceLength>>)

\* FloatVector3Uniform.iterableSetterInternal
FloatVector3UniformIterableSetterInternal(u, value) ==
    Call("uniform3fv", <<u.location, value, u.sourceOffset, u.sourceLength>>)

\* FloatUniform.iterableSetter
FloatUniformIterableSetter(u, value) ==
    Call("uniform1fv", <<u.location, value, u.sourceOffset, u.sourceLength>>)

\* FloatUniform.setter
FloatUniformSetter(u, value) == Call("uniform1f", <<u.location, value>>)

\* IntegerVector2Uniform.iterableSetter
IntegerVector2UniformIterableSetter(u, value) ==
    Call("uniform2iv", <<u.location, value, u.sourceOffset, u.sourceLength>>)

\* gl.uniform*(location, ...): the uniform at the location was set by the call.
NativeUniform(values, call) == [values EXCEPT ![call.params[1]] = Some(call.fn)]

InitUniform == uniformValues = [l \in UniformLocations |-> Undefined]

\* u.iterableSetter(value), by the class of u.
IterableSetter(u, value) ==
    /\ OutsideUniform
    /\ u.class \in {"FloatUniform", "IntegerVector2Uniform"} \cup MatrixUniformClasses
    /\ op' = Op("iterableSetter", <<u, value>>)
    /\ calls' =
          <<CASE u.class = "FloatUniform" -> FloatUniformIterableSetter(u, value)
              [] u.class = "IntegerVector2Uniform" ->
                   IntegerVector2UniformIterableSetter(u, value)
              [] u.class = "FloatMatrix2x2Uniform" ->
                   FloatMatrix2x2UniformIterableSetter(u, value)
              [] u.class = "FloatMatrix3x4Uniform" ->
                   FloatMatrix3x4UniformIterableSetter(u, value)>>
    /\ uniformValues' = NativeUniform(uniformValues, calls'[1])
    /\ ret' = Undefined
    /\ thrown' = Undefined

\* u.iterableSetterInternal(value) of a FloatVector3Uniform.
IterableSetterInternal(u, value) ==
    /\ OutsideUniform
    /\ u.class = "FloatVector3Uniform"
    /\ op' = Op("iterableSetterInternal", <<u, value>>)
    /\ calls' = <<FloatVector3UniformIterableSetterInternal(u, value)>>
    /\ uniformValues' = NativeUniform(uniformValues, calls'[1])
    /\ ret' = Undefined
    /\ thrown' = Undefined

\* u.setter(value) of a FloatUniform.
Setter(u, value) ==
    /\ OutsideUniform
    /\ u.class = "FloatUniform"
    /\ op' = Op("setter", <<u, value>>)
    /\ calls' = <<FloatUniformSetter(u, value)>>
    /\ uniformValues' = NativeUniform(uniformValues, calls'[1])
    /\ ret' = Undefined
    /\ thrown' = Undefined

\* ------------------------------------------------------------ specifications
\* Each specification exercises one class; the state of the others rests.
RestContext ==
    /\ gl = InitGl
    /\ drawingBufferColorSpaceCache = Undefined
    /\ unpackColorSpaceCache = Undefined
    /\ activeTextureCache = Undefined
    /\ blendColorCache = Undefined
    /\ heap = [a \in Arrays |-> Undefined]
RestNew == webgl2 = {} /\ contexts = <<>>
RestProgram == InitProgram
RestAttributeState == attributes = <<>>
RestUniform == InitUniform
RestAttribute ==
    /\ boundVao = NoVao
    /\ vertexAttribArrays = [b \in Bindings |-> [l \in Locations |-> FALSE]]
    /\ location = 0
    /\ enabledVaosCache = <<>>
    /\ lastWritten = [b \in Bindings |-> FALSE]
    /\ valueCache = Undefined
    /\ arrayBufferBinding = NoBuffer

\* The cached properties of one Context.
Init ==
    /\ InitContext /\ RestNew /\ RestProgram /\ RestAttribute
    /\ RestAttributeState /\ RestUniform /\ InitObs

Next ==
    \/ GetDrawingBufferColorSpace
    \/ \E value \in ColorSpaces : SetDrawingBufferColorSpace(value)
    \/ GetUnpackColorSpace
    \/ \E value \in ColorSpaces : SetUnpackColorSpace(value)
    \/ GetActiveTexture
    \/ \E value \in RequestedUnits : SetActiveTexture(value)
    \/ GetBlendColor
    \/ \E value \in CallerArrays : SetBlendColor(value)
    \/ \E a \in Arrays, color \in Colors : CallerWritesArray(a, color)

Spec == Init /\ [][Next]_vars

\* Context objects made one after the other on one native context whose
\* canvas the page resizes.
InitSpecSameGl ==
    /\ InitContext
    /\ RestNew /\ RestProgram /\ RestAttribute
    /\ RestAttributeState /\ RestUniform /\ InitObs

NextSameGl ==
    \/ GetDrawingBufferColorSpace
    \/ \E value \in ColorSpaces : SetDrawingBufferColorSpace(value)
    \/ GetUnpackColorSpace
    \/ \E value \in ColorSpaces : SetUnpackColorSpace(value)
    \/ GetActiveTexture
    \/ \E value \in RequestedUnits : SetActiveTexture(value)
    \/ GetBlendColor
    \/ \E value \in CallerArrays : SetBlendColor(value)
    \/ GetDrawingBufferHeight
    \/ GetDrawingBufferWidth
    \/ \E width \in DrawingBufferSizes, height \in DrawingBufferSizes :
          CanvasResized(width, height)
    \/ NewContextOnSameGl

SpecSameGl == InitSpecSameGl /\ [][NextSameGl]_vars

\* The construction of Context objects.
InitSpecNew ==
    /\ RestContext /\ InitNew /\ RestProgram /\ RestAttribute
    /\ RestAttributeState /\ RestUniform /\ InitObs

NextNew ==
    \/ \E source \in Canvases, options \in ContextOptions :
          NewContextFromCanvas(source, options)
    \/ \E source \in NativeContexts : NewContextFromGl(source)

SpecNew == InitSpecNew /\ [][NextNew]_vars

\* Shader and Program objects.
InitSpecProgram ==
    /\ RestContext /\ RestNew /\ InitProgram /\ RestAttribute
    /\ RestAttributeState /\ RestUniform /\ InitObs

NextProgram ==
    \/ \E type \in ShaderTypes, source \in ShaderSources : NewShader(type, source)
    \/ \E vertexShader \in DOMAIN shaders, fragmentShader \in DOMAIN shaders,
          attributeLocations \in AttributeLocationMaps :
          NewProgram(vertexShader, fragmentShader, attributeLocations)
    \/ \E vertexShaderSource \in ShaderSources,
          fragmentShaderSource \in ShaderSources :
          FromSource(vertexShaderSource, fragmentShaderSource)
    \/ \E p \in DOMAIN programs : DeleteProgram(p)

SpecProgram == InitSpecProgram /\ [][NextProgram]_vars

\* One Attribute and the vertex array objects.
InitSpecAttribute ==
    /\ RestContext /\ RestNew /\ RestProgram /\ InitAttribute
    /\ RestAttributeState /\ RestUniform /\ InitObs

NextAttribute ==
    \/ \E vao \in Bindings : BindVao(vao)
    \/ GetEnabled
    \/ \E value \in BOOLEAN : SetEnabled(value)
    \/ GetValue
    \/ \E value \in SetValueArguments : SetValue(value)

SpecAttribute == InitSpecAttribute /\ [][NextAttribute]_vars

\* AttributeState objects used in one program.
InitSpecAttributeState ==
    /\ RestContext /\ RestNew /\ RestProgram /\ RestAttribute
    /\ InitAttributeState /\ RestUniform /\ InitObs

NextAttributeState ==
    \E state \in AttributeStates : AttributeStateUse(state)

SpecAttributeState == InitSpecAttributeState /\ [][NextAttributeState]_vars

\* The uniforms of one program.
InitSpecUniform ==
    /\ RestContext /\ RestNew /\ RestProgram /\ RestAttribute
    /\ RestAttributeState /\ InitUniform /\ InitObs

NextUniform ==
    \/ \E u \in Uniforms, value \in Iterables : IterableSetter(u, value)
    \/ \E u \in Uniforms, value \in Iterables : IterableSetterInternal(u, value)
    \/ \E u \in Uniforms, value \in Numbers : Setter(u, value)

SpecUniform == InitSpecUniform /\ [][NextUniform]_vars

\* ------------------------------------------------------------ claims
\* C1: for drawingBufferColorSpace, unpackColorSpace and activeTexture, a set
\* issues the corresponding native write exactly once when the requested value
\* differs from the cached value (or nothing is cached), and no native write
\* when it equals the cached value; afterwards the cache holds the requested
\* value, so a set that repeats the previous set's value issues nothing.
C1_SetWritesOncePerDistinctValue ==
    [][/\ op'.name = "set drawingBufferColorSpace" =>
            /\ calls' = IF drawingBufferColorSpaceCache = Some(op'.val[1])
                        THEN <<>>
                        ELSE <<Call("set drawingBufferColorSpace", op'.val)>>
            /\ drawingBufferColorSpaceCache' = Some(op'.val[1])
            /\ gl'.drawingBufferColorSpace = op'.val[1]
            /\ (op.name = op'.name /\ op.val = op'.val) => calls' = <<>>
       /\ op'.name = "set unpackColorSpace" =>
            /\ calls' = IF unpackColorSpaceCache = Some(op'.val[1])
                        THEN <<>>
                        ELSE <<Call("set unpackColorSpace", op'.val)>>
            /\ unpackColorSpaceCache' = Some(op'.val[1])
            /\ gl'.unpackColorSpace = op'.val[1]
            /\ (op.name = op'.name /\ op.val = op'.val) => calls' = <<>>
       /\ op'.name = "set activeTexture" =>
            /\ calls' = IF activeTextureCache = Some(op'.val[1])
                        THEN <<>>
                        ELSE <<Call("activeTexture", <<op'.val[1] + TEXTURE0>>)>>
            /\ activeTextureCache' = Some(op'.val[1])
            /\ (op.name = op'.name /\ op.val = op'.val) => calls' = <<>>
      ]_vars

\* A set of the value the wrapper wrote before is skipped.
C1_Witness ==
    /\ op.name = "set drawingBufferColorSpace"
    /\ op.val = <<"display-p3">>
    /\ calls = <<>>
    /\ gl.drawingBufferColorSpace = "display-p3"

\* C2: a blendColor set whose four components differ from the native blend
\* color issues gl.blendColor exactly once with the new components, a set
\* whose components equal the blend color the wrapper knows issues nothing,
\* and after every set the native blend color equals the requested color.
C2_BlendColorSetReachesNative ==
    [][op'.name = "set blendColor" =>
          /\ gl'.blendColor = op'.val[2]
          /\ op'.val[2] # gl.blendColor =>
                calls' = <<Call("blendColor", op'.val[2])>>
          /\ (blendColorCache # Undefined /\ op'.val[2] = gl.blendColor) =>
                calls' = <<>>
      ]_vars

\* C3: whenever the activeTexture cache is defined it equals the native
\* active texture unit, ACTIVE_TEXTURE minus TEXTURE0.
C3_ActiveTextureCacheIsNative ==
    activeTextureCache # Undefined =>
        ValueOf(activeTextureCache) = gl.activeTexture - TEXTURE0
\* C4: new Context(canvas, options) calls canvas.getContext("webgl2", options)
\* exactly once; when that returns null it throws UnsupportedOperationError
\* and produces no Context; otherwise the Context wraps the returned native
\* context and its canvas is that context's canvas.  new Context(gl) wraps gl
\* and never calls getContext.
C4_ContextConstruction ==
    [][/\ op'.name = "new Context(canvas)" =>
            /\ calls' = <<Call("getContext",
                               <<op'.val[1], "webgl2", op'.val[2]>>)>>
            /\ IF op'.val[1] \notin webgl2
               THEN /\ thrown' # Undefined
                    /\ thrown'[1].name = "UnsupportedOperationError"
                    /\ contexts' = contexts
                    /\ ret' = Undefined
               ELSE /\ thrown' = Undefined
                    /\ contexts' = Append(contexts,
                            [gl |-> GlOf(op'.val[1]),
                             canvas |-> CanvasOf(GlOf(op'.val[1]))])
       /\ op'.name = "new Context(gl)" =>
            /\ calls' = <<>>
            /\ thrown' = Undefined
            /\ contexts' = Append(contexts,
                    [gl |-> op'.val[1], canvas |-> CanvasOf(op'.val[1])])
      ]_vars

\* A construction that failed after one that succeeded.
C4_Witness ==
    /\ op.name = "new Context(canvas)"
    /\ thrown # Undefined
    /\ contexts # <<>>

CallsNamed(fn) == {i \in DOMAIN calls : calls[i].fn = fn}
ThrownNamed(name) == thrown # Undefined /\ thrown[1].name = name

\* C5: when createProgram returned a program, new Program calls linkProgram
\* exactly once and throws ProgramLinkError if and only if the native
\* LINK_STATUS of that program is false; the error's text is the native info
\* log (none when the log is null); when LINK_STATUS is true it returns a
\* Program whose vertexShader and fragmentShader are the shaders passed in.
C5_LinkErrorIffLinkStatusFalse ==
    (op.name = "new Program" /\ calls[1].returns # Null) =>
        LET program == ValueOf(calls[1].returns)
            log == native.programs[program].infoLog
        IN /\ Cardinality(CallsNamed("linkProgram")) = 1
           /\ (thrown # Undefined) <=> ~native.programs[program].linkStatus
           /\ thrown # Undefined =>
                 /\ thrown[1].name = "ProgramLinkError"
                 /\ thrown[1].message = IF log = Null THEN Undefined ELSE log
                 /\ ret = Undefined
           /\ thrown = Undefined =>
                 /\ ret # Undefined
                 /\ programs[ValueOf(ret)].internal = program
                 /\ programs[ValueOf(ret)].vertexShader = shaders[op.val[1]]
                 /\ programs[ValueOf(ret)].fragmentShader = shaders[op.val[2]]

\* A failed link whose native info log is null.
C5_Witness ==
    /\ op.name = "new Program"
    /\ ThrownNamed("ProgramLinkError")
    /\ thrown[1].message = Undefined
    /\ native.programs[Len(native.programs)].infoLog = Null

\* C6: when createProgram returns null the constructor throws
\* UnsupportedOperationError at once: createProgram is called exactly once
\* and no attachShader, bindAttribLocation, linkProgram or
\* getProgramParameter call is issued.
C6_CreateProgramNullThrows ==
    \A i \in CallsNamed("createProgram") :
        calls[i].returns = Null =>
            /\ ThrownNamed("UnsupportedOperationError")
            /\ thrown[1].by = "Program"
            /\ ret = Undefined
            /\ CallsNamed("createProgram") = {i}
            /\ i = Len(calls)
            /\ CallsNamed("attachShader") = {}
            /\ CallsNamed("bindAttribLocation") = {}
            /\ CallsNamed("linkProgram") = {}
            /\ CallsNamed("getProgramParameter") = {}

C6_Witness ==
    /\ op.name = "new Program"
    /\ calls = <<CallR("createProgram", <<>>, Null)>>
    /\ Len(native.programs) = 1

\* C7: deleteProgram is issued only by Program.delete, on the wrapper's
\* handle; a constructor that fails with ProgramLinkError issues none, so
\* the program it created stays allocated.
C7_DeleteOnlyByDelete ==
    /\ op.name = "Program.delete" =>
          calls = <<Call("deleteProgram", <<programs[op.val[1]].internal>>)>>
    /\ op.name # "Program.delete" => CallsNamed("deleteProgram") = {}
    /\ \A h \in DOMAIN native.programs :
          native.programs[h].deleted =>
              \E p \in DOMAIN programs : programs[p].internal = h
    /\ ThrownNamed("ProgramLinkError") =>
          ~native.programs[Len(native.programs)].deleted

\* A failed link after another program was deleted.
C7_Witness ==
    /\ ThrownNamed("ProgramLinkError")
    /\ Len(native.programs) = 2
    /\ native.programs[1].deleted

\* C8: the enabled getter returns the value last written to enabled under
\* the current VAO binding (false if none was), and the native enable flag
\* of that binding agrees with it.
C8_EnabledIsLastWritten ==
    /\ Enabled = lastWritten[boundVao]
    /\ vertexAttribArrays[boundVao][location] = Enabled

\* C9: a set of enabled issues enableVertexAttribArray (true) or
\* disableVertexAttribArray (false) with the attribute's location exactly
\* once when the value differs from the cached enabled state of the bound
\* VAO, and nothing when it is equal; so with a VAO bound, a set that repeats
\* the previous set's value issues nothing.
C9_SetEnabledOncePerChange ==
    [][op'.name = "set enabled" =>
          /\ calls' = IF Enabled = op'.val[1]
                      THEN <<>>
                      ELSE IF op'.val[1]
                      THEN <<Call("enableVertexAttribArray", <<location>>)>>
                      ELSE <<Call("disableVertexAttribArray", <<location>>)>>
          /\ boundVao' = boundVao
          /\ (boundVao # NoVao /\ op.name = "set enabled" /\ op.val = op'.val)
                => calls' = <<>>
          /\ boundVao # NoVao => Enabled' = op'.val[1]
      ]_vars

\* Disabling under a bound VAO after enabling under it.
C9_Witness ==
    /\ op.name = "set enabled"
    /\ op.val = <<FALSE>>
    /\ boundVao # NoVao
    /\ calls = <<Call("disableVertexAttribArray", <<location>>)>>
    /\ location = MaxLocation

ShaderCallNames == {"createShader", "shaderSource", "compileShader",
                    "getShaderParameter", "getShaderInfoLog"}
ProgramCallNames == {"createProgram", "attachShader", "bindAttribLocation",
                     "linkProgram", "getProgramParameter", "getProgramInfoLog"}
ShaderCalls == {i \in DOMAIN calls : calls[i].fn \in ShaderCallNames}
ProgramCalls == {i \in DOMAIN calls : calls[i].fn \in ProgramCallNames}
CreateShaderCalls(type) ==
    {i \in CallsNamed("createShader") : calls[i].params = <<type>>}

\* C10: Program.fromSource builds the vertex shader, then the fragment
\* shader, then the program; when a shader construction throws, that error
\* reaches the caller and no createProgram, attachShader or linkProgram call
\* is issued.
C10_FromSourceOrder ==
    op.name = "Program.fromSource" =>
        /\ CreateShaderCalls("VERTEX_SHADER") = {1}
        /\ \A i \in CreateShaderCalls("FRAGMENT_SHADER") :
              /\ CreateShaderCalls("FRAGMENT_SHADER") = {i}
              /\ calls[1].returns # Null
              /\ \A j \in ShaderCalls \ CallsNamed("createShader") :
                    calls[j].params[1] = ValueOf(calls[1].returns) => j < i
        /\ \A i \in ProgramCalls :
              /\ CreateShaderCalls("FRAGMENT_SHADER") # {}
              /\ \A j \in ShaderCalls : j < i
        /\ (\E i \in CallsNamed("createShader") : calls[i].returns = Null) =>
              /\ thrown = Some(Error("UnsupportedOperationError", Undefined, "Shader"))
              /\ ProgramCalls = {}
        /\ (\E i \in CallsNamed("getShaderParameter") :
                calls[i].returns = Some(FALSE)) =>
              /\ ThrownNamed("ShaderCompileError")
              /\ thrown[1].by = "Shader"
              /\ ProgramCalls = {}
        /\ (thrown # Undefined /\ thrown[1].by = "Shader") =>
              /\ ProgramCalls = {}
              /\ ret = Undefined
        /\ (thrown = Undefined \/ thrown[1].by = "Program") =>
              Cardinality(CallsNamed("createProgram")) = 1

\* The fragment shader fails to compile after the vertex shader was built.
C10_Witness ==
    /\ op.name = "Program.fromSource"
    /\ ThrownNamed("ShaderCompileError")
    /\ Cardinality(CallsNamed("createShader")) = 2

\* C11: a Program construction whose createProgram succeeded issues, in this
\* order, createProgram, attachShader of the vertex shader, attachShader of
\* the fragment shader, one bindAttribLocation per entry of
\* attributeLocations in the entries' order, linkProgram and only then the
\* LINK_STATUS query (followed by nothing but the info log query of a failed
\* link); every bindAttribLocation precedes linkProgram, and without
\* attributeLocations there is no bindAttribLocation.
C11_ConstructorCallOrder ==
    (op.name = "new Program" /\ calls[1].returns # Null) =>
        LET program == ValueOf(calls[1].returns)
            entries == IF op.val[3] = Undefined THEN <<>> ELSE ValueOf(op.val[3])
            n == Len(entries)
        IN /\ Len(calls) >= n + 5
           /\ \A i \in (n + 6) .. Len(calls) : calls[i].fn = "getProgramInfoLog"
           /\ calls[1].fn = "createProgram"
           /\ calls[2] = Call("attachShader", <<program, shaders[op.val[1]].internal>>)
           /\ calls[3] = Call("attachShader", <<program, shaders[op.val[2]].internal>>)
           /\ \A i \in 1 .. n :
                 calls[3 + i] = Call("bindAttribLocation",
                                     <<program, entries[i][2], entries[i][1]>>)
           /\ calls[n + 4] = Call("linkProgram", <<program>>)
           /\ calls[n + 5].fn = "getProgramParameter"
           /\ calls[n + 5].params = <<program, LINK_STATUS>>
           /\ \A i \in CallsNamed("bindAttribLocation"),
                 j \in CallsNamed("linkProgram") : i < j
           /\ op.val[3] = Undefined => CallsNamed("bindAttribLocation") = {}

\* A construction with two attribute locations that reached the link.
C11_Witness ==
    /\ op.name = "new Program"
    /\ op.val[3] # Undefined
    /\ Cardinality(CallsNamed("bindAttribLocation")) = 2
    /\ CallsNamed("linkProgram") = {6}

\* C12: every setValue, whatever the cached value, sets enabled to true
\* (issuing enableVertexAttribArray unless the attribute already reads as
\* enabled), then binds the value's buffer to ARRAY_BUFFER, then calls
\* setterInternal with the value; a bare Buffer is first wrapped as
\* { buffer: value }, the wrapped form is what setterInternal receives and
\* what is cached, and the value getter then returns it.
C12_SetValueAlwaysUpdates ==
    [][/\ op'.name = "setValue" =>
            LET value == op'.val[1]
                wrapped == IF value \in Buffers THEN [buffer |-> value] ELSE value
                n == Len(calls')
            IN /\ n = IF Enabled THEN 2 ELSE 3
               /\ n = 3 => calls'[1] = Call("enableVertexAttribArray", <<location>>)
               /\ lastWritten'[boundVao]
               /\ boundVao # NoVao => Enabled'
               /\ calls'[n - 1] = Call("Buffer.bind", <<wrapped.buffer, "ARRAY_BUFFER">>)
               /\ calls'[n] = Call("setterInternal", <<wrapped>>)
               /\ arrayBufferBinding' = wrapped.buffer.internal
               /\ valueCache' = Some(wrapped)
       /\ (op.name = "setValue" /\ op'.name = "get value") =>
            /\ ret' = calls[Len(calls)].params
            /\ calls' = <<>>
      ]_vars

\* A bare Buffer given again while it is the cached value's buffer and the
\* attribute is enabled under the bound VAO.
C12_Witness ==
    /\ op.name = "setValue"
    /\ op.val[1] \in Buffers
    /\ valueCache = Some([buffer |-> op.val[1]])
    /\ Len(calls) = 2
    /\ boundVao # NoVao

\* One cached property of one Context: a get queries the native state exactly
\* when nothing is cached and returns the cached value otherwise; every get
\* and set leaves a cached value; a cached value stays cached on that Context;
\* and nothing but the get of an empty cache issues the query.
CachedGet(getName, setName, cache, cacheAfter, query) ==
    /\ op'.name = getName =>
          /\ calls' = IF cache = Undefined THEN <<query>> ELSE <<>>
          /\ cache # Undefined => ret' = cache
    /\ op'.name \in {getName, setName} => cacheAfter # Undefined
    /\ (cache # Undefined /\ op'.name # "new Context(same gl)") =>
          cacheAfter # Undefined
    /\ (\E i \in DOMAIN calls' :
            calls'[i].fn = query.fn /\ calls'[i].params = query.params) =>
          (op'.name = getName /\ cache = Undefined)

\* C13: for drawingBufferColorSpace, unpackColorSpace, activeTexture and
\* blendColor of one Context, the native state is queried only by a get that
\* no get or set of the property preceded, so at most once; after any set or
\* get, a get returns the cached value and issues no native call; and a get
\* that directly follows a set of v returns v (for blendColor: an array whose
\* components are those of v).
C13_QueriedAtMostOnce ==
    [][/\ CachedGet("get drawingBufferColorSpace", "set drawingBufferColorSpace",
                    drawingBufferColorSpaceCache, drawingBufferColorSpaceCache',
                    Call("get drawingBufferColorSpace", <<>>))
       /\ CachedGet("get unpackColorSpace", "set unpackColorSpace",
                    unpackColorSpaceCache, unpackColorSpaceCache',
                    Call("get unpackColorSpace", <<>>))
       /\ CachedGet("get activeTexture", "set activeTexture",
                    activeTextureCache, activeTextureCache',
                    Call("getParameter", <<ACTIVE_TEXTURE>>))
       /\ CachedGet("get blendColor", "set blendColor",
                    blendColorCache, blendColorCache',
                    Call("getParameter", <<BLEND_COLOR>>))
       /\ \/ (op.name = "set drawingBufferColorSpace"
                 /\ op'.name = "get drawingBufferColorSpace")
          \/ (op.name = "set unpackColorSpace" /\ op'.name = "get unpackColorSpace")
          \/ (op.name = "set activeTexture" /\ op'.name = "get activeTexture")
          => (ret' = Some(op.val[1]) /\ calls' = <<>>)
       /\ (op.name = "set blendColor" /\ op'.name = "get blendColor") =>
             (heap'[ValueOf(ret')] = op.val[2] /\ calls' = <<>>)
      ]_vars

\* A get of activeTexture right after a set, answered from the cache, on a
\* Context whose unpackColorSpace was queried natively before.
C13_Witness ==
    /\ op.name = "get activeTexture"
    /\ calls = <<>>
    /\ ret = Some(1)
    /\ unpackColorSpaceCache = Some(gl.unpackColorSpace)
    /\ gl.activeTexture = TEXTURE0 + 1

\* C14: activeTexture speaks in zero-based unit indices. A set of v that is
\* not skipped calls native activeTexture with v + TEXTURE0, and leaves the
\* native unit at v when the native context accepts v; a new wrapper of the
\* same native context leaves the native state alone; and the first get of a
\* fresh Context returns native ACTIVE_TEXTURE minus TEXTURE0. So a unit the
\* native context accepts, set on one wrapper, is what a fresh wrapper reads.
C14_ZeroBasedUnits ==
    [][/\ op'.name = "set activeTexture" =>
            /\ calls' # <<>> =>
                  calls' = <<Call("activeTexture", <<op'.val[1] + TEXTURE0>>)>>
            /\ op'.val[1] \in ValidUnits =>
                  gl'.activeTexture - TEXTURE0 = op'.val[1]
       /\ op'.name = "new Context(same gl)" =>
            /\ gl' = gl
            /\ activeTextureCache' = Undefined
            /\ (op.name = "set activeTexture" /\ op.val[1] \in ValidUnits) =>
                  gl'.activeTexture - TEXTURE0 = op.val[1]
       /\ (op'.name = "get activeTexture" /\ activeTextureCache = Undefined) =>
            /\ calls' = <<Call("getParameter", <<ACTIVE_TEXTURE>>)>>
            /\ ret' = Some(gl.activeTexture - TEXTURE0)
            /\ ValueOf(ret') \in ValidUnits
      ]_vars

\* A fresh wrapper reads unit 1 from the native context, which only a set of
\* 1 through an earlier wrapper can have selected.
C14_Witness ==
    /\ op.name = "get activeTexture"
    /\ calls = <<Call("getParameter", <<ACTIVE_TEXTURE>>)>>
    /\ ret = Some(1)

ContextSetterNames == {"set drawingBufferColorSpace", "set unpackColorSpace",
                       "set activeTexture", "set blendColor"}

\* C17: drawingBufferWidth and drawingBufferHeight are never cached: every
\* get reads the native context and returns its current value, so the get
\* that follows a resize of the native drawing buffer returns the new size;
\* and no Context setter changes the native size the getters return.
C17_DrawingBufferSizeNotCached ==
    [][/\ op'.name = "get drawingBufferWidth" =>
            /\ calls' = <<Call("get drawingBufferWidth", <<>>)>>
            /\ ret' = Some(gl'.drawingBufferWidth)
            /\ op.name = "canvas resized" => ret' = Some(op.val[1])
       /\ op'.name = "get drawingBufferHeight" =>
            /\ calls' = <<Call("get drawingBufferHeight", <<>>)>>
            /\ ret' = Some(gl'.drawingBufferHeight)
            /\ op.name = "canvas resized" => ret' = Some(op.val[2])
       /\ op'.name # "canvas resized" =>
            /\ gl'.drawingBufferWidth = gl.drawingBufferWidth
            /\ gl'.drawingBufferHeight = gl.drawingBufferHeight
       /\ op'.name \in ContextSetterNames =>
            \A i \in DOMAIN calls' :
               calls'[i].fn \notin {"get drawingBufferWidth", "get drawingBufferHeight"}
      ]_vars

\* The height is read after the drawing buffer was resized on a Context that
\* has cached properties.
C17_Witness ==
    /\ op.name = "get drawingBufferHeight"
    /\ ret = Some(MaxDrawingBufferSize)
    /\ gl.drawingBufferWidth = 1
    /\ activeTextureCache # Undefined
    /\ drawingBufferColorSpaceCache # Undefined

\* The native calls that read or write one cached property.
CallsAbout(property) ==
    CASE property = "drawingBufferColorSpace" ->
           {i \in DOMAIN calls' : calls'[i].fn \in {"get drawingBufferColorSpace",
                                                   "set drawingBufferColorSpace"}}
      [] property = "unpackColorSpace" ->
           {i \in DOMAIN calls' : calls'[i].fn \in {"get unpackColorSpace",
                                                   "set unpackColorSpace"}}
      [] property = "activeTexture" ->
           {i \in DOMAIN calls' :
               \/ calls'[i].fn = "activeTexture"
               \/ (calls'[i].fn = "getParameter"
                     /\ calls'[i].params = <<ACTIVE_TEXTURE>>)}
      [] property = "blendColor" ->
           {i \in DOMAIN calls' :
               \/ calls'[i].fn = "blendColor"
               \/ (calls'[i].fn = "getParameter"
                     /\ calls'[i].params = <<BLEND_COLOR>>)}

\* A step leaves one cached property alone: its cache, its native value and
\* no native call about it.
LeftAlone(property) ==
    /\ CallsAbout(property) = {}
    /\ CASE property = "drawingBufferColorSpace" ->
             /\ drawingBufferColorSpaceCache' = drawingBufferColorSpaceCache
             /\ gl'.drawingBufferColorSpace = gl.drawingBufferColorSpace
         [] property = "unpackColorSpace" ->
             /\ unpackColorSpaceCache' = unpackColorSpaceCache
             /\ gl'.unpackColorSpace = gl.unpackColorSpace
         [] property = "activeTexture" ->
             /\ activeTextureCache' = activeTextureCache
             /\ gl'.activeTexture = gl.activeTexture
         [] property = "blendColor" ->
             /\ blendColorCache' = blendColorCache
             /\ heap' = heap
             /\ gl'.blendColor = gl.blendColor

CachedProperties == {"drawingBufferColorSpace", "unpackColorSpace",
                     "activeTexture", "blendColor"}

\* C18: the cached Context properties are independent: a get or set of one
\* of drawingBufferColorSpace, unpackColorSpace, activeTexture and blendColor
\* leaves the caches of the other three unchanged and issues no native read
\* or write for them.
C18_CachedPropertiesIndependent ==
    [][/\ op'.name \in {"get drawingBufferColorSpace", "set drawingBufferColorSpace"}
            => \A p \in CachedProperties \ {"drawingBufferColorSpace"} : LeftAlone(p)
       /\ op'.name \in {"get unpackColorSpace", "set unpackColorSpace"}
            => \A p \in CachedProperties \ {"unpackColorSpace"} : LeftAlone(p)
       /\ op'.name \in {"get activeTexture", "set activeTexture"}
            => \A p \in CachedProperties \ {"activeTexture"} : LeftAlone(p)
       /\ op'.name \in {"get blendColor", "set blendColor"}
            => \A p \in CachedProperties \ {"blendColor"} : LeftAlone(p)
      ]_vars

\* A set of unpackColorSpace that reached the native context while the other
\* three properties hold cached values that differ from it.
C18_Witness ==
    /\ op.name = "set unpackColorSpace"
    /\ calls # <<>>
    /\ drawingBufferColorSpaceCache # Undefined
    /\ drawingBufferColorSpaceCache # unpackColorSpaceCache
    /\ activeTextureCache = Some(1)
    /\ blendColorCache # Undefined

\* C15: AttributeState.use(program) throws an Error when the program has no
\* attribute with the state's name, and then changes no attribute of the
\* program and issues no call; otherwise it throws nothing, makes the state
\* the value of the attribute with that name, and leaves every other
\* attribute of the program unchanged.
C15_UseThrowsWhenAttributeMissing ==
    [][op'.name = "AttributeState.use" =>
          LET state == op'.val[1]
          IN /\ DOMAIN attributes' = DOMAIN attributes
             /\ state.name \notin DOMAIN attributes =>
                   /\ thrown' # Undefined
                   /\ thrown'[1].name = "Error"
                   /\ attributes' = attributes
                   /\ calls' = <<>>
             /\ state.name \in DOMAIN attributes =>
                   /\ thrown' = Undefined
                   /\ attributes'[state.name] = Some(state)
                   /\ \A n \in DOMAIN attributes \ {state.name} :
                         attributes'[n] = attributes[n]
      ]_vars

\* A use that threw on a program whose other attributes have values.
C15_Witness ==
    /\ op.name = "AttributeState.use"
    /\ thrown # Undefined
    /\ DOMAIN attributes = AttributeNames \ {op.val[1].name}
    /\ \A n \in DOMAIN attributes : attributes[n] # Undefined

\* The native function a setter of a uniform class forwards to.
ForwardsTo(class, method) ==
    CASE class = "FloatUniform" /\ method = "setter" -> "uniform1f"
      [] class = "FloatUniform" /\ method = "iterableSetter" -> "uniform1fv"
      [] class = "FloatVector3Uniform" -> "uniform3fv"
      [] class = "IntegerVector2Uniform" -> "uniform2iv"
      [] class = "FloatMatrix2x2Uniform" -> "uniformMatrix2fv"
      [] class = "FloatMatrix3x4Uniform" -> "uniformMatrix3x4fv"

\* C16: a setter of a uniform class issues exactly one native call, the one
\* that matches the class: uniform1f (FloatUniform.setter, with the location
\* and the value), uniform1fv, uniform3fv, uniform2iv (with the location, the
\* value, sourceOffset and sourceLength), uniformMatrix2fv and
\* uniformMatrix3x4fv (the same, with transpose before the value: false when
\* the transpose field is undefined, the field's value otherwise).
C16_UniformForwarding ==
    op.name \in {"setter", "iterableSetter", "iterableSetterInternal"} =>
        LET u == op.val[1]
            value == op.val[2]
        IN /\ Len(calls) = 1
           /\ calls[1].fn = ForwardsTo(u.class, op.name)
           /\ calls[1].params[1] = u.location
           /\ op.name = "setter" => calls[1].params = <<u.location, value>>
           /\ (op.name # "setter" /\ u.class \in VectorUniformClasses) =>
                 calls[1].params =
                    <<u.location, value, u.sourceOffset, u.sourceLength>>
           /\ u.class \in MatrixUniformClasses =>
                 /\ calls[1].params[2] \in BOOLEAN
                 /\ u.transpose = Undefined => calls[1].params[2] = FALSE
                 /\ u.transpose # Undefined =>
                       calls[1].params[2] = ValueOf(u.transpose)
                 /\ calls[1].params[3] = value
                 /\ calls[1].params[4] = u.sourceOffset
                 /\ calls[1].params[5] = u.sourceLength
                 /\ Len(calls[1].params) = 5

\* A 2x2 matrix uniform without a transpose flag, with a source offset, set
\* after another uniform of the program was.
C16_Witness ==
    /\ op.name = "iterableSetter"
    /\ op.val[1].class = "FloatMatrix2x2Uniform"
    /\ op.val[1].transpose = Undefined
    /\ op.val[1].sourceOffset # Undefined
    /\ calls[1].fn = "uniformMatrix2fv"
    /\ \E l \in UniformLocations : uniformValues[l] = Some("uniform2iv")
====
